---------------------------- MODULE Spec2Model ----------------------------
(***************************************************************************)
(* A model of d2lvalence/d2lepoexport_presentation.py: the resource index  *)
(* (fileDict), the identifier parsers, the collectors that fill the index, *)
(* the passes that rewrite the links of a page, the CSS rewriter and the   *)
(* sequence of steps of download_presentation.                             *)
(*                                                                         *)
(* Python strings are TLA+ strings; str.find, str.rfind, slicing, strip,   *)
(* lower and replace are defined below as Python computes them.  A parsed  *)
(* document (a BeautifulSoup object) is the sequence of its elements in    *)
(* document order; an element is a record of its tag and attributes.       *)
(***************************************************************************)
EXTENDS Integers, Sequences, FiniteSets, TLC

VARIABLES
    fileDict,   \* the resource index of make_file_dict
    pc,         \* the position reached in the current specification
    site,       \* the remote presentation: documents and metadata service
    disk,       \* the files written below the presentation directory
    pages,      \* the documents rewritten so far, before and after
    cursor,     \* the position of the loop the pipeline is in
    calls,      \* the collector calls a free caller has made: how many, and which
    css,        \* the state of one run of update_css_file
    parsed      \* the text an identifier parser is given, and its answer

vars == <<fileDict, pc, site, disk, pages, cursor, calls, css, parsed>>

-----------------------------------------------------------------------------
(* Python's string primitives.                                             *)

Min(S) == CHOOSE x \in S : \A y \in S : x <= y
Max(S) == CHOOSE x \in S : \A y \in S : x >= y

\* s[i] for 0 <= i < len(s)
CharAt(s, i) == SubSeq(s, i + 1, i + 1)

\* The position a slice bound i denotes in s: a negative bound counts from
\* the end, and bounds outside the string are clipped.
SliceBound(s, i) ==
    IF i < 0 THEN (IF Len(s) + i < 0 THEN 0 ELSE Len(s) + i)
    ELSE IF i > Len(s) THEN Len(s) ELSE i

\* s[b:e]
Slice(s, b, e) ==
    IF SliceBound(s, b) >= SliceBound(s, e) THEN ""
    ELSE SubSeq(s, SliceBound(s, b) + 1, SliceBound(s, e))

\* s[b:]
SliceFrom(s, b) == IF SliceBound(s, b) >= Len(s) THEN "" ELSE SubSeq(s, SliceBound(s, b) + 1, Len(s))

Occurrences(s, sub, from) ==
    {i \in from..(Len(s) - Len(sub)) : SubSeq(s, i + 1, i + Len(sub)) = sub}

\* s.find(sub, from)
FindFrom(s, sub, from) ==
    LET found == Occurrences(s, sub, from)
    IN  IF found = {} THEN -1 ELSE Min(found)

\* s.find(sub)
Find(s, sub) == FindFrom(s, sub, 0)

\* s.rfind(sub)
RFind(s, sub) ==
    LET found == Occurrences(s, sub, 0)
    IN  IF found = {} THEN -1 ELSE Max(found)

Digits == {"0", "1", "2", "3", "4", "5", "6", "7", "8", "9"}
Lowers == {"a", "b", "c", "d", "e", "f", "g", "h", "i", "j", "k", "l", "m",
           "n", "o", "p", "q", "r", "s", "t", "u", "v", "w", "x", "y", "z"}
Uppers == {"A", "B", "C", "D", "E", "F", "G", "H", "I", "J", "K", "L", "M",
           "N", "O", "P", "Q", "R", "S", "T", "U", "V", "W", "X", "Y", "Z"}

isdigit(c) == c \in Digits
isalnum(c) == c \in Digits \cup Lowers \cup Uppers

LowerOf(c) ==
    CASE c = "A" -> "a" [] c = "B" -> "b" [] c = "C" -> "c" [] c = "D" -> "d"
      [] c = "E" -> "e" [] c = "F" -> "f" [] c = "G" -> "g" [] c = "H" -> "h"
      [] c = "I" -> "i" [] c = "J" -> "j" [] c = "K" -> "k" [] c = "L" -> "l"
      [] c = "M" -> "m" [] c = "N" -> "n" [] c = "O" -> "o" [] c = "P" -> "p"
      [] c = "Q" -> "q" [] c = "R" -> "r" [] c = "S" -> "s" [] c = "T" -> "t"
      [] c = "U" -> "u" [] c = "V" -> "v" [] c = "W" -> "w" [] c = "X" -> "x"
      [] c = "Y" -> "y" [] c = "Z" -> "z" [] OTHER -> c

\* s.lower()
RECURSIVE lower(_)
lower(s) == IF s = "" THEN "" ELSE LowerOf(Head(s)) \o lower(Tail(s))

\* s.replace(' ', '')
RECURSIVE RemoveSpaces(_)
RemoveSpaces(s) ==
    IF s = "" THEN ""
    ELSE (IF Head(s) = " " THEN "" ELSE Head(s)) \o RemoveSpaces(Tail(s))

\* s.strip(), for the blank as the only white space
RECURSIVE strip(_)
strip(s) ==
    IF s = "" THEN ""
    ELSE IF Head(s) = " " THEN strip(Tail(s))
    ELSE IF CharAt(s, Len(s) - 1) = " " THEN strip(Slice(s, 0, Len(s) - 1))
    ELSE s

\* x in list
In(x, list) == \E k \in DOMAIN list : list[k] = x

-----------------------------------------------------------------------------
(* Foundations.                                                            *)

DOMAIN_URL == "https://uwosh-beta.courses.wisconsin.edu"

\* The value an operator yields when the Python code raises IndexError.
IndexError == "<IndexError>"
\* The outcomes of a handler: no exception, or the exception that left it.
NoError == "ok"
LookupError == "<LookupError>"

\* An attribute an element does not have.
NoAttr == "<absent>"

make_file_dict ==
    [pageUrls |-> <<>>, pageFileNames |-> <<>>, pageIds |-> <<>>,
     fileUrls |-> <<>>, fileIds |-> <<>>, fileNames |-> <<>>,
     cssUrls |-> <<>>, cssFileNames |-> <<>>,
     imgUrls |-> <<>>, imgFileNames |-> <<>>]

\* An element of a parsed document.  current: the element is the first child
\* of a <div class="d_t_nav_current_page">.
Element(tag, href, src, onclick, type, string, current) ==
    [tag |-> tag, href |-> href, src |-> src, onclick |-> onclick,
     type |-> type, string |-> string, current |-> current]

has_attr(item, value) == value # NoAttr

\* The external metadata service, get_ep_object_properties(uc, id).FileName:
\* it raises for the ids of s.badIds and answers s.meta[id] otherwise.  (The
\* module reaches the service under the name d2lepoexport, which it never
\* imports; a call that raises for that reason is a lookup that fails.)
LookupFails(s, id) == id \in s.badIds
FileNameOf(s, id) == IF id \in DOMAIN s.meta THEN s.meta[id] ELSE "file" \o id

\* The result of a handler that mutates the index in place: the index as the
\* handler left it and the exception that ended it, if any.
Result(fd, err) == [fd |-> fd, err |-> err]

-----------------------------------------------------------------------------
(* Functions to get files.                                                 *)

\* The loop shared by get_page_id and get_epo_id: the digits s starts with;
\* reading the character after the last one raises IndexError when the digits
\* reach the end of s (or s is empty).
DigitRun(s) ==
    LET stops == {i \in 0..(Len(s) - 1) : ~isdigit(CharAt(s, i))}
    IN  IF stops = {} THEN IndexError ELSE Slice(s, 0, Min(stops))

get_page_id(onclick, objectId) ==
    LET beginIndex == Find(onclick, objectId) + Len(objectId) + 1
    IN  DigitRun(SliceFrom(onclick, beginIndex))

get_epo_id(href) ==
    LET beginIndex == Find(href, "contextId=") + Len("contextId=")
    IN  DigitRun(SliceFrom(href, beginIndex))

homePageOf(s) == DOMAIN_URL \o s.ViewLink

\* The page a registered page URL serves: make_soup(url).
make_soup(s, url) == IF url = homePageOf(s) THEN s.root ELSE s.sibling

\* The body of the loop of get_pages with the new page put at the head of the
\* lists instead of the end.
get_pages_anchor_first(a, s, fd) ==
    IF a.tag = "a" /\ a.href = "javascript://" /\ Find(a.onclick, "GotoPage") > 0
    THEN LET pageId == get_page_id(a.onclick, s.ObjectId)
         IN  IF pageId = IndexError THEN Result(fd, IndexError)
             ELSE IF ~In(pageId, fd.pageIds)
             THEN Result([fd EXCEPT
                      !.pageUrls = <<homePageOf(s) \o "&pageId=" \o pageId>> \o @,
                      !.pageFileNames =
                          <<lower(RemoveSpaces(a.string)) \o ".html">> \o @,
                      !.pageIds = <<pageId>> \o @], NoError)
             ELSE Result(fd, NoError)
    ELSE Result(fd, NoError)

\* The body of the loop of get_pages for one anchor.
get_pages_anchor(a, s, fd) ==
    IF a.tag = "a" /\ a.href = "javascript://" /\ Find(a.onclick, "GotoPage") > 0
    THEN LET pageId == get_page_id(a.onclick, s.ObjectId)
         IN  IF pageId = IndexError THEN Result(fd, IndexError)
             ELSE IF ~In(pageId, fd.pageIds)
             THEN Result([fd EXCEPT
                      !.pageUrls = Append(@, homePageOf(s) \o "&pageId=" \o pageId),
                      !.pageFileNames =
                          Append(@, lower(RemoveSpaces(a.string)) \o ".html"),
                      !.pageIds = Append(@, pageId)], NoError)
             ELSE Result(fd, NoError)
    ELSE Result(fd, NoError)

RECURSIVE get_pages_loop(_, _, _, _)
get_pages_loop(soup, i, s, fd) ==
    IF i > Len(soup) THEN Result(fd, NoError)
    ELSE LET r == get_pages_anchor(soup[i], s, fd)
         IN  IF r.err # NoError THEN r ELSE get_pages_loop(soup, i + 1, s, r.fd)

get_pages(s, fd) ==
    get_pages_loop(make_soup(s, homePageOf(s)), 1, s,
                   [fd EXCEPT !.pageUrls = Append(@, homePageOf(s)),
                              !.pageFileNames = Append(@, "index.html"),
                              !.pageIds = Append(@, s.ObjectId)])

\* register_file without the test that the id is new.
register_file_unchecked(epoId, url, s, fd) ==
    IF epoId = IndexError THEN Result(fd, IndexError)
    ELSE LET fd1 == [fd EXCEPT !.fileIds = Append(@, epoId),
                               !.fileUrls = Append(@, url)]
         IN  IF LookupFails(s, epoId) THEN Result(fd1, LookupError)
             ELSE Result([fd1 EXCEPT
                      !.fileNames = Append(@, strip(FileNameOf(s, epoId)))],
                      NoError)

\* The registration of an embedded object, shared by get_embedded_object and
\* get_img: the id and the URL are appended before the metadata lookup.
register_file(epoId, url, s, fd) ==
    IF epoId = IndexError THEN Result(fd, IndexError)
    ELSE IF ~In(epoId, fd.fileIds)
    THEN LET fd1 == [fd EXCEPT !.fileIds = Append(@, epoId),
                               !.fileUrls = Append(@, url)]
         IN  IF LookupFails(s, epoId) THEN Result(fd1, LookupError)
             ELSE Result([fd1 EXCEPT
                      !.fileNames = Append(@, strip(FileNameOf(s, epoId)))],
                      NoError)
    ELSE Result(fd, NoError)

get_embedded_object_anchor(a, s, fd) ==
    IF a.tag = "a" /\ Find(a.href, "d2lfile") > 0
    THEN register_file(get_epo_id(a.href), DOMAIN_URL \o a.href, s, fd)
    ELSE Result(fd, NoError)

RECURSIVE get_embedded_object_loop(_, _, _, _)
get_embedded_object_loop(soup, i, s, fd) ==
    IF i > Len(soup) THEN Result(fd, NoError)
    ELSE LET r == get_embedded_object_anchor(soup[i], s, fd)
         IN  IF r.err # NoError THEN r
             ELSE get_embedded_object_loop(soup, i + 1, s, r.fd)

get_embedded_object(soup, fd, s) == get_embedded_object_loop(soup, 1, s, fd)

\* The file name get_css derives from a stylesheet URL.
css_file_name(cssUrl) ==
    LET fileName == SliceFrom(cssUrl, RFind(cssUrl, "/") + 1)
    IN  IF Find(fileName, "?") > 0
        THEN Slice(fileName, 0, Find(fileName, "?")) ELSE fileName

get_css_link(link, fd) ==
    IF link.tag = "link" /\ link.type = "text/css"
    THEN LET cssUrl == DOMAIN_URL \o link.href
         IN  IF ~In(cssUrl, fd.cssUrls)
             THEN [fd EXCEPT !.cssUrls = Append(@, cssUrl),
                             !.cssFileNames = Append(@, css_file_name(cssUrl))]
             ELSE fd
    ELSE fd

RECURSIVE get_css_loop(_, _, _)
get_css_loop(soup, i, fd) ==
    IF i > Len(soup) THEN fd
    ELSE get_css_loop(soup, i + 1, get_css_link(soup[i], fd))

get_css(soup, fd) == Result(get_css_loop(soup, 1, fd), NoError)

get_img_img(img, s, fd) ==
    IF img.tag = "img"
    THEN IF Find(img.src, "d2lFile") < 0
         THEN LET imgUrl == DOMAIN_URL \o img.src
              IN  IF ~In(imgUrl, fd.imgUrls)
                  THEN Result([fd EXCEPT !.imgUrls = Append(@, imgUrl)], NoError)
                  ELSE Result(fd, NoError)
         ELSE register_file(get_epo_id(img.src), DOMAIN_URL \o img.src, s, fd)
    ELSE Result(fd, NoError)

RECURSIVE get_img_loop(_, _, _, _)
get_img_loop(soup, i, s, fd) ==
    IF i > Len(soup) THEN Result(fd, NoError)
    ELSE LET r == get_img_img(soup[i], s, fd)
         IN  IF r.err # NoError THEN r ELSE get_img_loop(soup, i + 1, s, r.fd)

get_img(soup, fd, s) == get_img_loop(soup, 1, s, fd)

\* The body of the loop of populate_file_dict for one page URL.
collect_page(url, s, fd) ==
    LET soup == make_soup(s, url)
        r1 == get_embedded_object(soup, fd, s)
        r2 == get_css(soup, r1.fd)
        r3 == get_img(soup, r2.fd, s)
    IN  IF r1.err # NoError THEN r1 ELSE r3


RECURSIVE populate_file_dict_loop(_, _, _)
populate_file_dict_loop(i, s, fd) ==
    IF i > Len(fd.pageUrls) THEN Result(fd, NoError)
    ELSE LET r == collect_page(fd.pageUrls[i], s, fd)
         IN  IF r.err # NoError THEN r ELSE populate_file_dict_loop(i + 1, s, r.fd)

populate_file_dict(s, fd) ==
    LET r == get_pages(s, fd)
    IN  IF r.err # NoError THEN r ELSE populate_file_dict_loop(1, s, r.fd)

-----------------------------------------------------------------------------
(* Functions to edit html.  A pass receives the parsed document and the     *)
(* index, both mutable objects, and the model gives back both as the pass   *)
(* left them.                                                               *)

Edited(soup, fd) == [soup |-> soup, fd |-> fd]

\* zip(a, b) stops at the end of the shorter list.
ZipLen(a, b) == IF Len(a) <= Len(b) THEN Len(a) ELSE Len(b)

Prefix(index) == IF index THEN "./" ELSE "../"

\* One turn of the inner loop of update_file_urls.
update_file_urls_item(item, fileId, fileName, index) ==
    LET i1 == IF has_attr(item, item.href) /\ Find(item.href, fileId) > 0
              THEN [item EXCEPT !.href = Prefix(index) \o "content/" \o fileName]
              ELSE item
    IN  IF has_attr(i1, i1.src) /\ Find(i1.src, fileId) > 0
        THEN [i1 EXCEPT !.src = Prefix(index) \o "content/" \o fileName]
        ELSE i1

RECURSIVE update_file_urls_zip(_, _, _, _)
update_file_urls_zip(item, k, fd, index) ==
    IF k > ZipLen(fd.fileIds, fd.fileNames) THEN item
    ELSE update_file_urls_zip(
             update_file_urls_item(item, fd.fileIds[k], fd.fileNames[k], index),
             k + 1, fd, index)

update_file_urls(soup, fd, index) ==
    Edited([i \in DOMAIN soup |->
               IF soup[i].tag \in {"a", "img"}
               THEN update_file_urls_zip(soup[i], 1, fd, index) ELSE soup[i]], fd)

RECURSIVE update_css_urls_zip(_, _, _, _)
update_css_urls_zip(a, k, fd, index) ==
    IF k > ZipLen(fd.cssUrls, fd.cssFileNames) THEN a
    ELSE update_css_urls_zip(
             IF Find(fd.cssUrls[k], a.href) > 0
             THEN [a EXCEPT !.href = Prefix(index) \o "formatting/" \o fd.cssFileNames[k]]
             ELSE a,
             k + 1, fd, index)

update_css_urls(soup, fd, index) ==
    Edited([i \in DOMAIN soup |->
               IF soup[i].tag = "link" /\ soup[i].type = "text/css"
               THEN update_css_urls_zip(soup[i], 1, fd, index) ELSE soup[i]], fd)

\* urllib.parse.urlparse(url).path of an absolute URL scheme://host/path?query
urlparse_path(url) ==
    LET afterScheme == Find(url, "://") + 3
        start == FindFrom(url, "/", afterScheme)
        rest == IF start < 0 THEN "" ELSE SliceFrom(url, start)
        ends == {i \in 0..(Len(rest) - 1) : CharAt(rest, i) \in {"?", "#"}}
    IN  IF ends = {} THEN rest ELSE Slice(rest, 0, Min(ends))

RECURSIVE update_image_urls_zip(_, _, _, _)
update_image_urls_zip(img, k, fd, index) ==
    IF k > ZipLen(fd.imgUrls, fd.imgFileNames) THEN img
    ELSE update_image_urls_zip(
             IF Find(img.src, "d2lFile") < 0 /\ img.src = urlparse_path(fd.imgUrls[k])
             THEN [img EXCEPT !.src = Prefix(index) \o "formatting/" \o fd.imgFileNames[k]]
             ELSE img,
             k + 1, fd, index)

\* update_image_urls that also records the file name of every image.
update_image_urls_recording(soup, fd, index) ==
    Edited([i \in DOMAIN soup |->
               IF soup[i].tag = "img"
               THEN update_image_urls_zip(soup[i], 1, fd, index) ELSE soup[i]],
           [fd EXCEPT !.imgFileNames =
               [k \in DOMAIN fd.imgUrls |->
                   SliceFrom(fd.imgUrls[k], RFind(fd.imgUrls[k], "/") + 1)]])

update_image_urls(soup, fd, index) ==
    Edited([i \in DOMAIN soup |->
               IF soup[i].tag = "img"
               THEN update_image_urls_zip(soup[i], 1, fd, index) ELSE soup[i]], fd)

\* The href update_page_urls gives a link to the page named pageFileName.
page_href(pageFileName, index) ==
    IF index THEN "./pages/" \o pageFileName
    ELSE IF pageFileName # "index.html" THEN pageFileName
    ELSE "../" \o pageFileName

\* The inner loop of update_page_urls: the href changes, the onclick that is
\* searched does not.
RECURSIVE update_page_urls_zip(_, _, _, _)
update_page_urls_zip(a, k, fd, index) ==
    IF k > ZipLen(fd.pageIds, fd.pageFileNames) THEN a
    ELSE update_page_urls_zip(
             IF Find(a.onclick, fd.pageIds[k]) > 0
             THEN [a EXCEPT !.href = page_href(fd.pageFileNames[k], index)]
             ELSE a,
             k + 1, fd, index)

update_page_urls(soup, fd, index) ==
    LET marked == [i \in DOMAIN soup |->
                      IF soup[i].current THEN [soup[i] EXCEPT !.href = "#"]
                      ELSE soup[i]]
    IN  Edited([i \in DOMAIN marked |->
                   IF marked[i].tag = "a" /\ marked[i].href = "javascript://"
                   THEN update_page_urls_zip(marked[i], 1, fd, index)
                   ELSE marked[i]], fd)

IsNotScript(e) == e.tag # "script"

strip_script(soup) == SelectSeq(soup, IsNotScript)

\* update_page up to write_page: the document and the index after the passes.
update_page(soup, fd, index) ==
    LET p1 == update_file_urls(soup, fd, index)
        p2 == update_css_urls(p1.soup, p1.fd, index)
        p3 == update_image_urls(p2.soup, p2.fd, index)
        p4 == update_page_urls(p3.soup, p3.fd, index)
    IN  Edited(strip_script(p4.soup), p4.fd)

-----------------------------------------------------------------------------
(* Functions to edit css.                                                   *)

HTTPError == "<HTTPError>"
URLError == "<URLError>"

\* css_address that resolves a relative reference against the domain.
css_address_on_domain(cssUrl, url) ==
    IF url = "" THEN IndexError
    ELSE IF CharAt(url, 0) = "/" THEN DOMAIN_URL \o url
    ELSE IF isalnum(CharAt(url, 0)) THEN DOMAIN_URL \o "/" \o url
    ELSE IF Find(url, "/") < 0 THEN IndexError
    ELSE LET address == DOMAIN_URL \o SliceFrom(url, Find(url, "/"))
             lastAlnum == Max({i \in 0..(Len(address) - 1) : isalnum(CharAt(address, i))})
         IN  Slice(address, 0, lastAlnum + 1)

\* The address update_css_file resolves the argument url of a url( ) to in the
\* stylesheet cssUrl; IndexError where the code reads past the end of url.
css_address(cssUrl, url) ==
    IF url = "" THEN IndexError
    ELSE IF CharAt(url, 0) = "/" THEN DOMAIN_URL \o url
    ELSE IF isalnum(CharAt(url, 0))
    THEN Slice(cssUrl, 0, RFind(cssUrl, "/")) \o "/" \o url
    ELSE IF Find(url, "/") < 0 THEN IndexError
    ELSE LET address == DOMAIN_URL \o SliceFrom(url, Find(url, "/"))
             lastAlnum == Max({i \in 0..(Len(address) - 1) : isalnum(CharAt(address, i))})
         IN  Slice(address, 0, lastAlnum + 1)

\* The local file name of a resolved address.
css_new_address(address) ==
    LET newAddress == SliceFrom(address, RFind(address, "/") + 1)
    IN  IF Find(newAddress, "?") > 0
        THEN Slice(newAddress, 0, Find(newAddress, "?")) ELSE newAddress

\* One turn of the loop of update_css_file on a line, where urlretrieve ends
\* as outcome says: the line written (none when an exception leaves the loop),
\* the file fetched, the message printed and the exception raised.
CssStep(line, written, fetched, printed, err) ==
    [line |-> line, written |-> written, fetched |-> fetched,
     printed |-> printed, err |-> err]

update_css_file_line(cssUrl, line, outcome) ==
    LET contains_link == Find(line, "url(")
        beginIndex == contains_link + 4
        endIndex == FindFrom(line, ")", beginIndex)
        url == Slice(line, beginIndex, endIndex)
        address == css_address(cssUrl, url)
        newAddress == css_new_address(address)
        newLine == Slice(line, 0, beginIndex) \o newAddress
                       \o SliceFrom(line, endIndex)
    IN  IF contains_link = -1 THEN CssStep(line, TRUE, {}, FALSE, NoError)
        ELSE IF address = IndexError THEN CssStep(line, FALSE, {}, FALSE, IndexError)
        ELSE IF outcome = NoError
        THEN CssStep(newLine, TRUE, {<<address, newAddress>>}, FALSE, NoError)
        ELSE IF outcome = HTTPError THEN CssStep(newLine, TRUE, {}, TRUE, NoError)
        ELSE CssStep(line, FALSE, {}, FALSE, outcome)

\* The outcome of the n-th call of urlretrieve of a run that fails as fail says.
FetchOutcome(fail, n) == IF fail.at = n THEN fail.kind ELSE NoError

\* The run of update_css_file over the lines from position i on: run.out are
\* the lines written so far, run.fetched the assets downloaded, run.n the calls
\* of urlretrieve made, run.printed the failures logged.
RECURSIVE update_css_file_loop(_, _, _, _, _)
update_css_file_loop(cssUrl, lines, i, fail, run) ==
    IF i > Len(lines) THEN run
    ELSE LET isLink == Find(lines[i], "url(") # -1
             step == update_css_file_line(cssUrl, lines[i],
                                          FetchOutcome(fail, run.n + 1))
             next == [out |-> IF step.written THEN Append(run.out, step.line)
                              ELSE run.out,
                      fetched |-> run.fetched \cup step.fetched,
                      n |-> IF isLink /\ step.err # IndexError THEN run.n + 1
                            ELSE run.n,
                      printed |-> IF step.printed THEN run.printed + 1
                                  ELSE run.printed,
                      err |-> step.err]
         IN  IF step.err # NoError THEN next
             ELSE update_css_file_loop(cssUrl, lines, i + 1, fail, next)

update_css_file(cssUrl, lines, fail) ==
    update_css_file_loop(cssUrl, lines, 1, fail,
        [out |-> <<>>, fetched |-> {}, n |-> 0, printed |-> 0, err |-> NoError])

-----------------------------------------------------------------------------
(* The presentations the model is checked on.                              *)

MaxElems == 2    \* the root document holds at most MaxElems elements
MaxCalls == 2    \* a free caller makes at most MaxCalls collector calls

\* A navigation anchor of the presentation's menu.
Nav(onclick, string) ==
    Element("a", "javascript://", NoAttr, onclick, NoAttr, string, FALSE)
\* An anchor, an image and a stylesheet link of a page's content.
Anchor(href) == Element("a", href, NoAttr, NoAttr, NoAttr, "file", FALSE)
Image(src) == Element("img", NoAttr, src, NoAttr, NoAttr, NoAttr, FALSE)
Stylesheet(href) ==
    Element("link", href, NoAttr, NoAttr, "text/css", NoAttr, FALSE)

\* A line of a stylesheet with one url( ) whose argument is ref.
LineHead == "h{background:url("
LineTail == ");}"
CssLine(ref) == LineHead \o ref \o LineTail
PlainLine == "p{color:red}"

RootObjectId == "123"

NavPool ==
    { Nav("D2L.GotoPage(123,456);", "Reflections"),
      Nav("D2L.GotoPage(123,45);", "My Work"),
      Nav("D2L.GotoPage(123,60);", "Index"),
      Nav("D2L.GotoPage(123, 45);", "Notes"),
      Element("a", "javascript://", NoAttr, "D2L.GotoPage(123,123);", NoAttr,
              "Home", TRUE) }

BodyPool ==
    { Anchor("/d2l/d2lfile/v?contextId=77&a=1"),
      Anchor("/d2l/d2lfile/v?contextId=778&a=1"),
      Anchor("/d2l/d2lfile/v?contextId=90&a=1"),
      Anchor("/d2l/d2lfile/v?contextId=77"),
      Image("/d2l/d2lFile/i?contextId=77&a=1"),
      Image("/img/bg.png"),
      Image("/img/bg.png?v=2"),
      Stylesheet("/css/t.css"),
      Stylesheet("/css/t.css?v=2") }

\* What the content of the pages other than the root may be.
SiblingBodies ==
    { <<>>,
      <<Image("/d2l/d2lFile/i?contextId=778&a=1"), Image("/img/bg.png?v=2")>> }

\* The file names the metadata service answers.
MetaPool ==
    { [id \in {"77", "778", "90"} |->
          CASE id = "77" -> "a.pdf" [] id = "778" -> " b.pdf " [] OTHER -> "y77.pdf"] }

SeqsUpTo(S, n) == UNION {[1..k -> S] : k \in 0..n}

IsNav(e) == e.tag = "a" /\ e.href = "javascript://"

\* The menu as a page other than the root shows it: the root page's entry,
\* marked as the current page in the root document, is a link there.
SiblingMenu(r) ==
    LET menu == SelectSeq(r, IsNav)
    IN  [i \in DOMAIN menu |-> [menu[i] EXCEPT !.current = FALSE]]

\* Every page of a presentation shows the menu of the root page.
SitePool ==
    { [ObjectId |-> RootObjectId, ViewLink |-> "/d2l/eP/view?ou=1", Name |-> "My Folio",
       root |-> r, sibling |-> SiblingMenu(r) \o b, meta |-> m, badIds |-> bad,
       stylesheet |-> <<CssLine("/images/bg.png"), PlainLine>>] :
      r \in SeqsUpTo(NavPool \cup BodyPool, MaxElems), b \in SiblingBodies,
      m \in MetaPool, bad \in {{}, {"778"}} }

InitCommon ==
    /\ site \in SitePool
    /\ fileDict = make_file_dict
    /\ disk = {}
    /\ pages = <<>>
    /\ cursor = 0
    /\ calls = [n |-> 0, done |-> {}]
    /\ css = <<>>
    /\ parsed = <<>>

-----------------------------------------------------------------------------
(* A caller that holds an index and calls the collectors as it likes.      *)

InitCollect == InitCommon /\ pc = "caller"

\* The caller's call of f leaves the index as f left it, also when f raised.
CallGetPages ==
    /\ pc = "caller" /\ fileDict.pageIds = <<>>
    /\ fileDict' = get_pages(site, fileDict).fd
    /\ UNCHANGED <<pc, site, disk, pages, cursor, calls, css, parsed>>

\* The call of collector f on the k-th registered page.
Called(f, k) == [n |-> calls.n + 1, done |-> calls.done \cup {<<f, k>>}]

CallGetEmbeddedObject ==
    /\ pc = "caller" /\ calls.n < MaxCalls
    /\ \E k \in DOMAIN fileDict.pageUrls :
          /\ fileDict' = get_embedded_object(
                             make_soup(site, fileDict.pageUrls[k]), fileDict, site).fd
          /\ calls' = Called("get_embedded_object", k)
    /\ UNCHANGED <<pc, site, disk, pages, cursor, css, parsed>>

CallGetCss ==
    /\ pc = "caller" /\ calls.n < MaxCalls
    /\ \E k \in DOMAIN fileDict.pageUrls :
          /\ fileDict' = get_css(make_soup(site, fileDict.pageUrls[k]), fileDict).fd
          /\ calls' = Called("get_css", k)
    /\ UNCHANGED <<pc, site, disk, pages, cursor, css, parsed>>

CallGetImg ==
    /\ pc = "caller" /\ calls.n < MaxCalls
    /\ \E k \in DOMAIN fileDict.pageUrls :
          /\ fileDict' = get_img(make_soup(site, fileDict.pageUrls[k]), fileDict, site).fd
          /\ calls' = Called("get_img", k)
    /\ UNCHANGED <<pc, site, disk, pages, cursor, css, parsed>>

NextCollect ==
    \/ CallGetPages
    \/ CallGetEmbeddedObject
    \/ CallGetCss
    \/ CallGetImg

SpecCollect == InitCollect /\ [][NextCollect]_vars

\* A URL without its query string.
StripQuery(url) == IF Find(url, "?") >= 0 THEN Slice(url, 0, Find(url, "?")) ELSE url

\* The text after the last '/' of a.
LastSegment(a) == SliceFrom(a, RFind(a, "/") + 1)

NoDuplicates(list) == \A i, j \in DOMAIN list : list[i] = list[j] => i = j


\* C1: after any sequence of get_pages and collector calls, no identity key
\* occurs twice within a category of the index: pageIds, fileIds, cssUrls and
\* imgUrls each hold pairwise distinct values; an embedded object referenced by
\* an anchor and by an image under different URLs has one entry in fileIds.
C1_UniqueKeys ==
    /\ NoDuplicates(fileDict.pageIds)
    /\ NoDuplicates(fileDict.fileIds)
    /\ NoDuplicates(fileDict.cssUrls)
    /\ NoDuplicates(fileDict.imgUrls)
    /\ \A id \in {"77", "778", "90"} :
          Cardinality({k \in DOMAIN fileDict.fileIds : fileDict.fileIds[k] = id}) <= 1

\* The root page references object 77 by an anchor and by an image, both
\* collectors have run on it, and the index holds 77 once.
C1_Witness ==
    /\ pc = "caller"
    /\ site.root = <<Anchor("/d2l/d2lfile/v?contextId=77&a=1"),
                     Image("/d2l/d2lFile/i?contextId=77&a=1")>>
    /\ {<<"get_embedded_object", 1>>, <<"get_img", 1>>} \subseteq calls.done
    /\ calls.n = 2
    /\ fileDict.fileIds = <<"77">>

\* C10: two stylesheet links, or two formatting images, whose URLs differ only
\* in the query string leave one entry in cssUrls, respectively imgUrls: no two
\* entries of a list are the same URL once the query string is removed.
C10_OneEntryPerResource ==
    /\ \A i, j \in DOMAIN fileDict.cssUrls :
          StripQuery(fileDict.cssUrls[i]) = StripQuery(fileDict.cssUrls[j]) => i = j
    /\ \A i, j \in DOMAIN fileDict.imgUrls :
          StripQuery(fileDict.imgUrls[i]) = StripQuery(fileDict.imgUrls[j]) => i = j


-----------------------------------------------------------------------------
(* download_presentation, step by step.  The paths of disk are relative to  *)
(* the directory of the presentation unless they begin with '/'.            *)

Init == InitCommon /\ pc = "start"

\* populate_file_dict: get_pages
GetPages ==
    /\ pc = "start"
    /\ LET r == get_pages(site, fileDict)
       IN  /\ fileDict' = r.fd
           /\ pc' = IF r.err = NoError THEN "collect" ELSE "raised"
    /\ cursor' = 1
    /\ UNCHANGED <<site, disk, pages, calls, css, parsed>>

\* populate_file_dict: one turn of the loop over pageUrls
CollectPage ==
    /\ pc = "collect" /\ cursor <= Len(fileDict.pageUrls)
    /\ LET r == collect_page(fileDict.pageUrls[cursor], site, fileDict)
       IN  /\ fileDict' = r.fd
           /\ pc' = IF r.err = NoError THEN "collect" ELSE "raised"
    /\ cursor' = cursor + 1
    /\ UNCHANGED <<site, disk, pages, calls, css, parsed>>

\* os.mkdir(directoryName); os.chdir(directoryName)
MakeDirectory ==
    /\ pc = "collect" /\ cursor > Len(fileDict.pageUrls)
    /\ pc' = "index"
    /\ UNCHANGED <<fileDict, site, disk, pages, cursor, calls, css, parsed>>

\* update_page and write_page of the document fetched from url.
Rewritten(url, path, index) ==
    LET soup == make_soup(site, url)
        r == update_page(soup, fileDict, index)
    IN  /\ fileDict' = r.fd
        /\ pages' = Append(pages, [path |-> path, index |-> index,
                                   before |-> soup, after |-> r.soup])
        /\ disk' = disk \cup {path}

RewriteIndex ==
    /\ pc = "index"
    /\ Rewritten(fileDict.pageUrls[1], "index.html", TRUE)
    /\ pc' = "pages"
    /\ cursor' = 2
    /\ UNCHANGED <<site, calls, css, parsed>>

RewritePage ==
    /\ pc = "pages" /\ cursor <= ZipLen(fileDict.pageUrls, fileDict.pageFileNames)
    /\ Rewritten(fileDict.pageUrls[cursor],
                 "Pages/" \o fileDict.pageFileNames[cursor], FALSE)
    /\ cursor' = cursor + 1
    /\ UNCHANGED <<pc, site, calls, css, parsed>>

PagesDone ==
    /\ pc = "pages" /\ cursor > ZipLen(fileDict.pageUrls, fileDict.pageFileNames)
    /\ pc' = "content"
    /\ cursor' = 1
    /\ UNCHANGED <<fileDict, site, disk, pages, calls, css, parsed>>

DownloadFile ==
    /\ pc = "content" /\ cursor <= ZipLen(fileDict.fileUrls, fileDict.fileIds)
    /\ IF LookupFails(site, fileDict.fileIds[cursor])
       THEN pc' = "raised" /\ disk' = disk
       ELSE /\ disk' = disk \cup
                  {"Content/" \o strip(FileNameOf(site, fileDict.fileIds[cursor]))}
            /\ pc' = pc
    /\ cursor' = cursor + 1
    /\ UNCHANGED <<fileDict, site, pages, calls, css, parsed>>

ContentDone ==
    /\ pc = "content" /\ cursor > ZipLen(fileDict.fileUrls, fileDict.fileIds)
    /\ pc' = "formatting"
    /\ cursor' = 1
    /\ UNCHANGED <<fileDict, site, disk, pages, calls, css, parsed>>

DownloadCss ==
    /\ pc = "formatting" /\ cursor <= ZipLen(fileDict.cssUrls, fileDict.cssFileNames)
    /\ LET run == update_css_file(fileDict.cssUrls[cursor], site.stylesheet,
                                  [at |-> 0, kind |-> NoError])
       IN  /\ disk' = disk \cup {"Formatting/" \o fileDict.cssFileNames[cursor]}
                           \cup {"Formatting/" \o f[2] : f \in run.fetched}
           /\ pc' = IF run.err = NoError THEN pc ELSE "raised"
    /\ cursor' = cursor + 1
    /\ UNCHANGED <<fileDict, site, pages, calls, css, parsed>>

CssDone ==
    /\ pc = "formatting" /\ cursor > ZipLen(fileDict.cssUrls, fileDict.cssFileNames)
    /\ pc' = "images"
    /\ cursor' = 1
    /\ UNCHANGED <<fileDict, site, disk, pages, calls, css, parsed>>

\* The name the loop over imgUrls retrieves an image to: it keeps the '/'.
img_file_name(imgUrl) ==
    LET fileName == SliceFrom(imgUrl, RFind(imgUrl, "/"))
    IN  IF Find(fileName, "?") > 0
        THEN Slice(fileName, 0, Find(fileName, "?")) ELSE fileName

\* The path a file name denotes in the directory dir: a name that begins with
\* '/' is an absolute path.
PathIn(dir, fileName) ==
    IF fileName # "" /\ CharAt(fileName, 0) = "/" THEN fileName ELSE dir \o fileName

DownloadImg ==
    /\ pc = "images" /\ cursor <= Len(fileDict.imgUrls)
    /\ disk' = disk \cup {PathIn("Formatting/", img_file_name(fileDict.imgUrls[cursor]))}
    /\ cursor' = cursor + 1
    /\ UNCHANGED <<fileDict, pc, site, pages, calls, css, parsed>>

ImagesDone ==
    /\ pc = "images" /\ cursor > Len(fileDict.imgUrls)
    /\ pc' = "done"
    /\ UNCHANGED <<fileDict, site, disk, pages, cursor, calls, css, parsed>>

\* urlopen or urlretrieve of the step the pipeline is at raises.
FetchFails ==
    /\ \/ pc \in {"start", "index"}
       \/ pc = "collect" /\ cursor <= Len(fileDict.pageUrls)
       \/ pc = "pages" /\ cursor <= ZipLen(fileDict.pageUrls, fileDict.pageFileNames)
       \/ pc = "content" /\ cursor <= ZipLen(fileDict.fileUrls, fileDict.fileIds)
       \/ pc = "formatting" /\ cursor <= ZipLen(fileDict.cssUrls, fileDict.cssFileNames)
       \/ pc = "images" /\ cursor <= Len(fileDict.imgUrls)
    /\ pc' = "raised"
    /\ UNCHANGED <<fileDict, site, disk, pages, cursor, calls, css, parsed>>

Next ==
    \/ GetPages
    \/ CollectPage
    \/ MakeDirectory
    \/ RewriteIndex
    \/ RewritePage
    \/ PagesDone
    \/ DownloadFile
    \/ ContentDone
    \/ DownloadCss
    \/ CssDone
    \/ DownloadImg
    \/ ImagesDone
    \/ FetchFails

Spec == Init /\ [][Next]_vars

\* C2: once the first update_page call starts, no step of download_presentation
\* changes the index.
C2_IndexFrozen == [][pc \notin {"start", "collect"} => fileDict' = fileDict]_vars

\* download_presentation has finished for a presentation with two pages, an
\* embedded file and a stylesheet or an image, all rewritten and downloaded.
C2_Witness ==
    /\ pc = "done"
    /\ Len(pages) = 2
    /\ fileDict.fileIds # <<>>
    /\ fileDict.imgUrls # <<>>

\* The elements of the documents written so far: the document's record and
\* the position of the element in it.
Written == {<<g, i>> : g \in DOMAIN pages, i \in 1..MaxElems + 2}
InDocument(w) == w[2] \in DOMAIN pages[w[1]].before
Before(w) == pages[w[1]].before[w[2]]
After(w) == pages[w[1]].after[w[2]]
IsIndex(w) == pages[w[1]].index
\* The positions at which list holds x.
PositionsOf(x, list) == {k \in DOMAIN list : list[k] = x}

\* C3: every navigation anchor whose page is registered refers, after
\* update_page_urls, to './pages/<name>' in the root document, and in another
\* document to '<name>' when its page is not the root and to '../<name>' when
\* it is, <name> being the file name of the page the anchor encodes.
C3_PageLinksByDepth ==
    \A w \in Written :
        (InDocument(w) /\ IsNav(Before(w)) /\ ~Before(w).current) =>
            \A k \in PositionsOf(get_page_id(Before(w).onclick, site.ObjectId),
                                 fileDict.pageIds) :
                After(w).href =
                    IF IsIndex(w) THEN "./pages/" \o fileDict.pageFileNames[k]
                    ELSE IF k = 1 THEN "../" \o fileDict.pageFileNames[k]
                    ELSE fileDict.pageFileNames[k]

\* The address of an anchor or an image.
AddressOf(item) == IF item.tag = "img" THEN item.src ELSE item.href
IsEmbedded(item) ==
    /\ item.tag \in {"a", "img"}
    /\ Find(AddressOf(item), "contextId=") >= 0

\* C4: every anchor or image whose address embeds the id of a registered
\* embedded asset refers, after update_file_urls, to './content/<name>' (root
\* document) or '../content/<name>' (other documents), <name> being the file
\* name registered for that id.
C4_FileLinksByEmbeddedId ==
    \A w \in Written :
        (InDocument(w) /\ IsEmbedded(Before(w))) =>
            \A k \in PositionsOf(get_epo_id(AddressOf(Before(w))), fileDict.fileIds) :
                AddressOf(After(w)) =
                    Prefix(IsIndex(w)) \o "content/" \o fileDict.fileNames[k]

\* C5: every image whose src is the path of a formatting image that get_img
\* registered has, after update_image_urls, the src './formatting/<name>' (root
\* document) or '../formatting/<name>' (other documents).
C5_FormattingImages ==
    \A w \in Written :
        (InDocument(w) /\ Before(w).tag = "img" /\ Find(Before(w).src, "d2lFile") < 0) =>
            \A k \in DOMAIN fileDict.imgUrls :
                Before(w).src = urlparse_path(fileDict.imgUrls[k]) =>
                    After(w).src = Prefix(IsIndex(w)) \o "formatting/"
                                       \o LastSegment(StripQuery(fileDict.imgUrls[k]))

\* The file a reference of the document at path denotes.
Resolve(path, index, ref) ==
    LET dir == IF index THEN "" ELSE "Pages/"
    IN  IF ref = "#" THEN path
        ELSE IF Slice(ref, 0, 2) = "./" THEN dir \o SliceFrom(ref, 2)
        ELSE IF Slice(ref, 0, 3) = "../"
        THEN (IF index THEN ref ELSE SliceFrom(ref, 3))
        ELSE dir \o ref

\* C9: after download_presentation has completed, every href and src that was
\* rewritten denotes, from the directory of its document, a file that was written.
C9_LinksResolve ==
    pc = "done" =>
        \A w \in Written :
            InDocument(w) =>
                /\ After(w).href # Before(w).href =>
                       Resolve(pages[w[1]].path, IsIndex(w), After(w).href) \in disk
                /\ After(w).src # Before(w).src =>
                       Resolve(pages[w[1]].path, IsIndex(w), After(w).src) \in disk

-----------------------------------------------------------------------------
(* A caller that rewrites one document of a presentation twice with the     *)
(* index populate_file_dict has built.                                      *)

Populated(s) == populate_file_dict(s, make_file_dict)

InitRewrite ==
    /\ site \in {s \in SitePool : Populated(s).err = NoError}
    /\ fileDict = Populated(site).fd
    /\ disk = {}
    /\ pages = <<>>
    /\ cursor = 0
    /\ calls = [n |-> 0, done |-> {}]
    /\ css = <<>>
    /\ parsed = <<>>
    /\ pc = "rewrite"

RewriteOnce ==
    /\ pc = "rewrite"
    /\ \E k \in DOMAIN fileDict.pageUrls :
          LET soup == make_soup(site, fileDict.pageUrls[k])
              r == update_page(soup, fileDict, k = 1)
          IN  /\ fileDict' = r.fd
              /\ pages' = <<[path |-> fileDict.pageFileNames[k], index |-> k = 1,
                             before |-> soup, after |-> r.soup]>>
    /\ pc' = "again"
    /\ UNCHANGED <<site, disk, cursor, calls, css, parsed>>

RewriteAgain ==
    /\ pc = "again"
    /\ LET r == update_page(pages[1].after, fileDict, pages[1].index)
       IN  /\ fileDict' = r.fd
           /\ pages' = Append(pages, [pages[1] EXCEPT !.before = pages[1].after,
                                                      !.after = r.soup])
    /\ pc' = "twice"
    /\ UNCHANGED <<site, disk, cursor, calls, css, parsed>>

NextRewrite ==
    \/ RewriteOnce
    \/ RewriteAgain

SpecRewrite == InitRewrite /\ [][NextRewrite]_vars

\* C6: the passes of update_page applied a second time, with the same index and
\* flag, to a document they have rewritten change no href and no src.
C6_RewriteIdempotent ==
    pc = "twice" =>
        \A i \in DOMAIN pages[2].before :
            /\ pages[2].after[i].href = pages[2].before[i].href
            /\ pages[2].after[i].src = pages[2].before[i].src

-----------------------------------------------------------------------------
(* One run of update_css_file on a stylesheet.                             *)

MaxRefLen == 3   \* the generated url( ) arguments hold at most MaxRefLen characters

RefAlphabet == {"/", "a", "?", "'", "."}

RECURSIVE StringsUpTo(_, _)
StringsUpTo(A, n) ==
    IF n = 0 THEN {""}
    ELSE LET S == StringsUpTo(A, n - 1) IN S \cup {x \o c : x \in S, c \in A}

NamedRefs ==
    {"/images/bg.png", "icon.png?v=2", "'/img/x.png'", "../img/up.gif", "\"img/q.png\""}

RefPool == (StringsUpTo(RefAlphabet, MaxRefLen) \ {""}) \cup NamedRefs

\* refs[i] of a line without url( )
NoRef == "<none>"

\* The stylesheets: lines, the argument refs[i] of the first url( ) of line i
\* and the argument more[i] of a second url( ) of the same line.
CssFilePool ==
    { [lines |-> <<CssLine(r)>>, refs |-> <<r>>, more |-> <<NoRef>>] : r \in RefPool }
    \cup { [lines |-> <<CssLine(r), PlainLine, CssLine(q)>>, refs |-> <<r, NoRef, q>>,
            more |-> <<NoRef, NoRef, NoRef>>] :
           r \in NamedRefs, q \in NamedRefs }
    \cup { [lines |-> <<CssLine(r) \o CssLine(q)>>, refs |-> <<r>>, more |-> <<q>>] :
           r \in NamedRefs, q \in NamedRefs }

CssUrlPool == { DOMAIN_URL \o "/css/t.css", DOMAIN_URL \o "/shared/css/t.css?v=2" }

\* Which call of urlretrieve fails, and how; at 0: none fails.
FailPool == { [at |-> 0, kind |-> NoError], [at |-> 1, kind |-> HTTPError],
              [at |-> 1, kind |-> URLError] }

NoRun == [out |-> <<>>, fetched |-> {}, n |-> 0, printed |-> 0, err |-> NoError]

InitCss ==
    /\ site \in {s \in SitePool : s.root = <<>> /\ s.sibling = <<>> /\ s.badIds = {}}
    /\ fileDict = make_file_dict
    /\ disk = {}
    /\ pages = <<>>
    /\ cursor = 0
    /\ calls = [n |-> 0, done |-> {}]
    /\ pc = "css"
    /\ parsed = <<>>
    /\ \E f \in CssFilePool, u \in CssUrlPool, x \in FailPool :
          /\ x.at # 0 => f.refs[1] \in NamedRefs
          /\ css = [cssUrl |-> u, lines |-> f.lines, refs |-> f.refs,
                    more |-> f.more, fail |-> x, run |-> NoRun]

UpdateCssFile ==
    /\ pc = "css"
    /\ LET run == update_css_file(css.cssUrl, css.lines, css.fail)
       IN  /\ css' = [css EXCEPT !.run = run]
           /\ pc' = IF run.err = NoError THEN "cssdone" ELSE "raised"
    /\ UNCHANGED <<fileDict, site, disk, pages, cursor, calls, parsed>>

NextCss == UpdateCssFile

SpecCss == InitCss /\ [][NextCss]_vars

\* The three-way rule in the words of the specification.
C7_Directory(cssUrl) == Slice(cssUrl, 0, RFind(cssUrl, "/"))

RECURSIVE C7_TrimTrailing(_)
C7_TrimTrailing(a) ==
    IF a # "" /\ ~isalnum(CharAt(a, Len(a) - 1))
    THEN C7_TrimTrailing(Slice(a, 0, Len(a) - 1)) ELSE a

C7_Rule(cssUrl, ref) ==
    IF CharAt(ref, 0) = "/" THEN DOMAIN_URL \o ref
    ELSE IF isalnum(CharAt(ref, 0)) THEN C7_Directory(cssUrl) \o "/" \o ref
    ELSE C7_TrimTrailing(DOMAIN_URL \o SliceFrom(ref, Find(ref, "/")))

\* The outcome of the run for the first reference of line i: the line as
\* written, what follows the reference being left as it was, and the asset as
\* fetched.
C7_Resolved(i, address, name) ==
    /\ css.run.out[i] = LineHead \o name \o LineTail \o
           (IF css.more[i] = NoRef THEN "" ELSE CssLine(css.more[i]))
    /\ FetchOutcome(css.fail, Cardinality({j \in 1..i : css.refs[j] # NoRef})) = NoError
          => <<address, name>> \in css.run.fetched

C8_FailureSkipsSubstitution ==
    (pc \in {"cssdone", "raised"} /\ css.fail.at = 1 /\ css.run.n >= 1) =>
        /\ Len(css.run.out) = Len(css.lines)
        /\ css.run.out[1] = css.lines[1]
        /\ css.run.printed = 1


-----------------------------------------------------------------------------
(* The order of the pages of the index.                                     *)

\* The positions of the root document at which a navigation anchor encodes
\* the page id p.
AnchorsOf(p) ==
    {i \in DOMAIN site.root :
        /\ IsNav(site.root[i]) /\ Find(site.root[i].onclick, "GotoPage") > 0
        /\ get_page_id(site.root[i].onclick, site.ObjectId) = p}

C11_RootFirst ==
    /\ fileDict.pageUrls[1] = DOMAIN_URL \o site.ViewLink
    /\ fileDict.pageIds[1] = site.ObjectId
    /\ fileDict.pageFileNames[1] = "index.html"

C11_DiscoveryOrder ==
    /\ Len(fileDict.pageUrls) = Len(fileDict.pageIds)
    /\ Len(fileDict.pageFileNames) = Len(fileDict.pageIds)
    /\ \A k \in 2..Len(fileDict.pageIds) :
          LET p == fileDict.pageIds[k]
          IN  /\ AnchorsOf(p) # {}
              /\ fileDict.pageUrls[k] =
                     DOMAIN_URL \o site.ViewLink \o "&pageId=" \o p
              /\ fileDict.pageFileNames[k] =
                     lower(RemoveSpaces(site.root[Min(AnchorsOf(p))].string))
                         \o ".html"
              /\ \A j \in 2..(k - 1) :
                     Min(AnchorsOf(fileDict.pageIds[j])) < Min(AnchorsOf(p))
    /\ pc \in {"collect", "index", "pages", "content", "formatting", "images",
               "done"} =>
          \A i \in DOMAIN site.root :
              IsNav(site.root[i]) /\ Find(site.root[i].onclick, "GotoPage") > 0 =>
                  In(get_page_id(site.root[i].onclick, site.ObjectId),
                     fileDict.pageIds)

\* C11: once get_pages has seeded the index, position 0 of the page lists is
\* the root page (DOMAIN + ViewLink, ObjectId, 'index.html'), the other pages
\* follow in the order in which their navigation anchors are first met in the
\* root document, and no later step changes the three page lists.
C11_PagesInDiscoveryOrder ==
    /\ [](fileDict.pageIds # <<>> => C11_RootFirst /\ C11_DiscoveryOrder)
    /\ [][fileDict.pageIds # <<>> =>
            /\ fileDict'.pageUrls = fileDict.pageUrls
            /\ fileDict'.pageFileNames = fileDict.pageFileNames
            /\ fileDict'.pageIds = fileDict.pageIds]_vars

\* download_presentation has gone past the rewriting of a presentation of
\* three pages: the root and two pages discovered from its menu.
C11_Witness ==
    /\ pc = "done"
    /\ Len(fileDict.pageIds) = 3
    /\ Len(pages) = 3

-----------------------------------------------------------------------------
(* get_page_id and get_epo_id on their own: a caller hands one of them a    *)
(* text and receives its answer.                                            *)

MaxTail == 3    \* the text after the head of a script or a URL has at most MaxTail characters

TailAlphabet == {"4", "5", "a", ")"}

\* The onclick texts: the first two heads hold the root object id followed by
\* a separator, the last two do not hold it.
ScriptHeads == {"D2L.GotoPage(123,", "Go(123,", "Go(", "D2L.Nav.Goto("}
\* The URLs: the first two heads end with the marker 'contextId=', the last
\* two do not hold it.
UrlHeads ==
    {"/d2l/d2lfile/v?contextId=", "/d2l/d2lFile/i?a=1&contextId=", "/d2l/img/",
     "/d2l/d2lfile/v?ou="}

NoResult == "<pending>"

InitParse ==
    /\ site \in {s \in SitePool : s.root = <<>> /\ s.sibling = <<>> /\ s.badIds = {}}
    /\ fileDict = make_file_dict
    /\ disk = {}
    /\ pages = <<>>
    /\ cursor = 0
    /\ calls = [n |-> 0, done |-> {}]
    /\ css = <<>>
    /\ pc = "parse"
    /\ \E t \in StringsUpTo(TailAlphabet, MaxTail) :
          \/ \E h \in ScriptHeads :
                parsed = [fn |-> "get_page_id", text |-> h \o t, result |-> NoResult]
          \/ \E h \in UrlHeads :
                parsed = [fn |-> "get_epo_id", text |-> h \o t, result |-> NoResult]

ParsePageId ==
    /\ pc = "parse" /\ parsed.fn = "get_page_id"
    /\ parsed' = [parsed EXCEPT !.result = get_page_id(parsed.text, site.ObjectId)]
    /\ pc' = "parsed"
    /\ UNCHANGED <<fileDict, site, disk, pages, cursor, calls, css>>

ParseEpoId ==
    /\ pc = "parse" /\ parsed.fn = "get_epo_id"
    /\ parsed' = [parsed EXCEPT !.result = get_epo_id(parsed.text)]
    /\ pc' = "parsed"
    /\ UNCHANGED <<fileDict, site, disk, pages, cursor, calls, css>>

NextParse ==
    \/ ParsePageId
    \/ ParseEpoId

SpecParse == InitParse /\ [][NextParse]_vars

\* The maximal run of decimal digits at the head of s.
RECURSIVE MaximalDigits(_)
MaximalDigits(s) ==
    IF s = "" \/ ~isdigit(Head(s)) THEN ""
    ELSE SubSeq(s, 1, 1) \o MaximalDigits(Tail(s))

\* C12: for a script text that holds the root object id, get_page_id returns
\* the maximal run of digits that begins one character after the first
\* occurrence of the root id, whether other characters or nothing follow it.
C12_MaximalDigitRun ==
    (pc = "parsed" /\ parsed.fn = "get_page_id"
        /\ Find(parsed.text, site.ObjectId) >= 0) =>
        parsed.result =
            MaximalDigits(SliceFrom(parsed.text,
                Find(parsed.text, site.ObjectId) + Len(site.ObjectId) + 1))

\* C13: get_page_id gives no identifier for a text without the root object
\* id, and get_epo_id gives none for a URL without 'contextId='.
C13_NoMarkerNoIdentifier ==
    /\ (pc = "parsed" /\ parsed.fn = "get_page_id"
           /\ Find(parsed.text, site.ObjectId) < 0) =>
           parsed.result \in {"", IndexError}
    /\ (pc = "parsed" /\ parsed.fn = "get_epo_id"
           /\ Find(parsed.text, "contextId=") < 0) =>
           parsed.result \in {"", IndexError}

-----------------------------------------------------------------------------
(* download_presentation after a fetch or a metadata lookup has failed.     *)

\* The file of the presentation directory that holds the page named name.
PageFile(name) == IF name = "index.html" THEN name ELSE "Pages/" \o name

\* C14: when a fetch or a metadata lookup has failed, no document written
\* before the failure has a navigation link to a page that was never written.
C14_NoPartialMirror ==
    pc = "raised" =>
        \A w \in Written :
            (InDocument(w) /\ IsNav(Before(w))
                /\ After(w).href \notin {"javascript://", "#"}) =>
                \E k \in DOMAIN fileDict.pageFileNames :
                    /\ After(w).href =
                           page_href(fileDict.pageFileNames[k], IsIndex(w))
                    /\ PageFile(fileDict.pageFileNames[k]) \in disk

\* After an exception no step of download_presentation follows.
C14_Aborts == [][pc # "raised"]_vars

-----------------------------------------------------------------------------
(* The page an anchor's link names.                                         *)

\* The hrefs that name the file of the page at position k of the index.
HrefsOfPage(k) ==
    {"./pages/" \o fileDict.pageFileNames[k], fileDict.pageFileNames[k],
     "../" \o fileDict.pageFileNames[k]}

\* C15: after update_page_urls, a navigation anchor whose onclick encodes the
\* id of a registered page names the file of the page with exactly that id.
C15_ExactPageId ==
    \A w \in Written :
        (InDocument(w) /\ IsNav(Before(w)) /\ ~Before(w).current) =>
            \A k \in DOMAIN fileDict.pageIds :
                fileDict.pageIds[k] =
                    get_page_id(Before(w).onclick, site.ObjectId) =>
                    After(w).href \in HrefsOfPage(k)

-----------------------------------------------------------------------------
(* Lines of a stylesheet with two url( ) references.                        *)

\* C16: every url( ) of a line is handled: on a line with two references,
\* both arguments are replaced by their local names, both assets are fetched
\* and the text around them is written as it was.
C16_EveryOccurrence ==
    pc = "cssdone" =>
        \A i \in DOMAIN css.more :
            (css.more[i] # NoRef /\ css.fail.at = 0) =>
                LET first == css_address(css.cssUrl, css.refs[i])
                    second == css_address(css.cssUrl, css.more[i])
                IN  /\ css.run.out[i] =
                           CssLine(css_new_address(first))
                               \o CssLine(css_new_address(second))
                    /\ <<first, css_new_address(first)>> \in css.run.fetched
                    /\ <<second, css_new_address(second)>> \in css.run.fetched

-----------------------------------------------------------------------------
(* Elements whose identifier cannot be extracted.                           *)

C17_NoEmptyId == ~In("", fileDict.pageIds) /\ ~In("", fileDict.fileIds)

\* After get_embedded_object has run on the root document, with a metadata
\* service that answers, every anchor to an embedded file whose id can be
\* extracted is registered.
C17_OthersRegistered ==
    (<<"get_embedded_object", 1>> \in calls.done /\ site.badIds = {}) =>
        \A i \in DOMAIN site.root :
            LET a == site.root[i]
            IN  (a.tag = "a" /\ Find(a.href, "d2lfile") > 0
                    /\ get_epo_id(a.href) \notin {"", IndexError}) =>
                    In(get_epo_id(a.href), fileDict.fileIds)

\* C17: an element whose identifier cannot be extracted is skipped: no page and
\* no file is registered under the empty id, and the elements after it in the
\* document are still registered.
C17_UnidentifiedSkipped == C17_NoEmptyId /\ C17_OthersRegistered

-----------------------------------------------------------------------------
(* The parallel lists of the index.                                         *)

C18_PagesAligned ==
    /\ Len(fileDict.pageUrls) = Len(fileDict.pageIds)
    /\ Len(fileDict.pageFileNames) = Len(fileDict.pageIds)

C18_FilesAligned ==
    /\ Len(fileDict.fileUrls) = Len(fileDict.fileIds)
    /\ Len(fileDict.fileNames) = Len(fileDict.fileIds)

C18_CssAligned == Len(fileDict.cssUrls) = Len(fileDict.cssFileNames)

C18_ImagesAligned == Len(fileDict.imgUrls) = Len(fileDict.imgFileNames)

\* C18: in every state the lists of one category of the index have the same
\* length, also after a metadata lookup has failed during a registration.
C18_ListsAligned ==
    C18_PagesAligned /\ C18_FilesAligned /\ C18_CssAligned /\ C18_ImagesAligned

-----------------------------------------------------------------------------
(* The file names of the pages.                                             *)

\* C19: no two registered pages have the same local file name, so only the
\* root page is named 'index.html'.
C19_DistinctPageFileNames ==
    /\ NoDuplicates(fileDict.pageFileNames)
    /\ \A k \in DOMAIN fileDict.pageFileNames :
          fileDict.pageFileNames[k] = "index.html" => k = 1

=============================================================================
